---- MODULE Spec2Model ----
(***************************************************************************)
(* Model of src/engine/interpolate.js: setupInitialState captures, for     *)
(* every visible non-stage target, the rendered state at the start of a    *)
(* frame; interpolate pushes a blend of that snapshot and the target's     *)
(* current state to the renderer.                                          *)
(*                                                                         *)
(* Numbers.  JavaScript numbers are modelled by exact fixed-point          *)
(* integers:                                                               *)
(*   - positions and bounding boxes are held in units of 1/PosScale;       *)
(*   - time is tn/TimeSteps for tn in 0..TimeSteps;                        *)
(*   - every value handed to the renderer is held multiplied by TimeSteps  *)
(*     (so a + change * time is a*TimeSteps + change*tn, exactly);         *)
(*   - ghost, scale (percent) and direction (degrees) are integers;        *)
(*   - Math.atan2(..) * 180 / Math.PI is computed to the nearest degree.   *)
(***************************************************************************)
EXTENDS Integers, Sequences, FiniteSets

VARIABLES targets, rendererAttached, allDrawables, calls, raised, lastOp, lastTime, mutations

vars == <<targets, rendererAttached, allDrawables, calls, raised, lastOp, lastTime, mutations>>

----------------------------------------------------------------------------
(* Bounds of the model. *)

\* positions are held in units of 1/PosScale (0.1 is PosScale/10)
PosScale == 10

\* interpolate is called with time = tn/TimeSteps, tn \in 0..TimeSteps
TimeSteps == 2

\* number of host mutations in one behaviour
MaxMutations == 2

----------------------------------------------------------------------------
(* Values the host gives the fields of a target and of the renderer. *)

\* null / undefined
Null == [null |-> TRUE]

\* runtime.targets is << the stage, a sprite, a sprite >>; a target's
\* drawableID is its place in the list
TargetIds == {1, 2, 3}

\* the host moves, shows and hides the sprites
Sprites == {2, 3}

\* the host changes the effects, costume, direction and scale of these
Animated == {3}

\* <<x, y>>: the origin, 1 and 2 units off it, 5, 10 and 200 to the right,
\* and 5 to the right and 60 up
PositionValues ==
  { <<0, 0>>, <<1, 0>>, <<0, 2>>, <<5 * PosScale, 0>>, <<10 * PosScale, 0>>,
    <<200 * PosScale, 0>>, <<5 * PosScale, 60 * PosScale>> }

\* the positions the host gives target i
PositionValuesOf(i) ==
  IF i \in Animated THEN PositionValues ELSE { <<0, 0>>, <<5 * PosScale, 0>> }
GhostValues == {0, 10, 25, 30}
CostumeValues == {0, 1}
DirectionValues == {90, 10, 350}
ScaleValues == {<<100, 100>>, <<-100, 100>>, <<40, 100>>, <<-40, 100>>, <<100, 200>>}
BoundsValues == {[width |-> 0, height |-> 0], [width |-> 100 * PosScale, height |-> 100 * PosScale]}
Times == 0..TimeSteps

----------------------------------------------------------------------------
(* Math *)

Abs(a) == IF a < 0 THEN -a ELSE a

Min(a, b) == IF a < b THEN a ELSE b

Sign(a) == IF a > 0 THEN 1 ELSE IF a < 0 THEN -1 ELSE 0

\* 10000 * sin(d degrees), d = 0..90
SinTable ==
  << 0, 175, 349, 523, 698, 872, 1045, 1219, 1392, 1564,
     1736, 1908, 2079, 2250, 2419, 2588, 2756, 2924, 3090, 3256,
     3420, 3584, 3746, 3907, 4067, 4226, 4384, 4540, 4695, 4848,
     5000, 5150, 5299, 5446, 5592, 5736, 5878, 6018, 6157, 6293,
     6428, 6561, 6691, 6820, 6947, 7071, 7193, 7314, 7431, 7547,
     7660, 7771, 7880, 7986, 8090, 8192, 8290, 8387, 8480, 8572,
     8660, 8746, 8829, 8910, 8988, 9063, 9135, 9205, 9272, 9336,
     9397, 9455, 9511, 9563, 9613, 9659, 9703, 9744, 9781, 9816,
     9848, 9877, 9903, 9925, 9945, 9962, 9976, 9986, 9994, 9998,
     10000 >>

\* 10000 * sin(d degrees), d = 0..359, by the symmetries of the sine
SinDegrees ==
  [m \in 0..359 |->
     IF m <= 90 THEN SinTable[m + 1]
     ELSE IF m <= 180 THEN SinTable[180 - m + 1]
     ELSE IF m <= 270 THEN -SinTable[m - 180 + 1]
     ELSE -SinTable[360 - m + 1]]

\* Math.sin(d * Math.PI / 180), scaled as SinTable
Sin(d) == SinDegrees[d % 360]

\* Math.cos(d * Math.PI / 180), scaled as SinTable
Cos(d) == SinDegrees[(d + 90) % 360]

\* Math.atan2(y, x) * 180 / Math.PI to the nearest degree, in -179..180.
\* cross(a) is |(x, y)| * sin(angle - a): the angle lies in [a, a + 1) where
\* cross turns from >= 0 to < 0, and nearer to a than to a + 1 when
\* cross(a) <= -cross(a + 1)
Atan2Degrees(y, x) ==
  LET cross(a) == y * Cos(a) - x * Sin(a)
      floor == CHOOSE a \in -180..179 : cross(a) >= 0 /\ cross(a + 1) < 0
      nearest == IF cross(floor) <= -cross(floor + 1) THEN floor ELSE floor + 1
  IN  IF x = 0 /\ y = 0 THEN 0
      ELSE IF nearest = -180 THEN 180 ELSE nearest

\* a + change * time, time = tn/TimeSteps, held multiplied by TimeSteps
Lerp(a, change, tn) == a * TimeSteps + change * tn

\* a value handed to the renderer as it is, held multiplied by TimeSteps
Fixed(a) == a * TimeSteps

----------------------------------------------------------------------------
(* Targets *)

\* target._getRenderedDirectionAndScale(): a new {direction, scale} object
\* on every call, computed from the target's state
getRenderedDirectionAndScale(target) ==
  [direction |-> target.direction, scale |-> target.scale]

\* the object literal setupInitialState stores in target.interpolationData
captureData(target) ==
  LET directionAndScale == getRenderedDirectionAndScale(target)
  IN  [x |-> target.x,
       y |-> target.y,
       direction |-> directionAndScale.direction,
       scale |-> directionAndScale.scale,
       costume |-> target.currentCostume,
       ghost |-> target.effects.ghost]

\* a plausible slip: no else branch, an ineligible target keeps its data
setupTargetKeepsStale(target) ==
  IF target.visible /\ ~target.isStage
    THEN [target EXCEPT !.interpolationData = captureData(target)]
    ELSE target

\* the body of setupInitialState's loop
setupTarget(target) ==
  IF target.visible /\ ~target.isStage
    THEN [target EXCEPT !.interpolationData = captureData(target)]
    ELSE [target EXCEPT !.interpolationData = Null]

----------------------------------------------------------------------------
(* interpolate: the three blends of one target, each the sequence of       *)
(* renderer calls it issues.                                               *)

\* the position blend with the drawable's AABB in hand
positionCalls(target, interpolationData, bounds, tn) ==
  LET xDistance == target.x - interpolationData.x
      yDistance == target.y - interpolationData.y
      absoluteXDistance == Abs(xDistance)
      absoluteYDistance == Abs(yDistance)
      xTolerance == Min(50 * PosScale, 10 * PosScale + bounds.width)
      yTolerance == Min(50 * PosScale, 10 * PosScale + bounds.height)
      newX == Lerp(interpolationData.x, xDistance, tn)
      newY == Lerp(interpolationData.y, yDistance, tn)
  IN  IF absoluteXDistance < xTolerance /\ absoluteYDistance < yTolerance
        THEN << [op |-> "updateDrawablePosition",
                 drawableID |-> target.drawableID,
                 position |-> <<newX, newY>>] >>
        ELSE << >>

\* absoluteXDistance > 0.1 || absoluteYDistance > 0.1
moved(target, interpolationData) ==
  \/ Abs(target.x - interpolationData.x) * 10 > PosScale
  \/ Abs(target.y - interpolationData.y) * 10 > PosScale

\* the ghost blend
ghostCalls(target, interpolationData, tn) ==
  LET ghostChange == target.effects.ghost - interpolationData.ghost
      absoluteGhostChange == Abs(ghostChange)
      newGhost == Lerp(target.effects.ghost, ghostChange, tn)
  IN  IF absoluteGhostChange > 0 /\ absoluteGhostChange < 25
        THEN << [op |-> "updateDrawableEffect",
                 drawableID |-> target.drawableID,
                 effect |-> "ghost",
                 value |-> newGhost] >>
        ELSE << >>

\* Math.atan2(sin(current) * time + sin(starting),
\*            cos(current) * time + cos(starting)) * 180 / Math.PI
blendDirection(direction, startingDirection, tn) ==
  Atan2Degrees(Sin(direction) * tn + Sin(startingDirection) * TimeSteps,
               Cos(direction) * tn + Cos(startingDirection) * TimeSteps)

\* blendDirection, tabulated over the directions and times of the model
blendedDirections ==
  [a \in DirectionValues \X DirectionValues \X Times |-> blendDirection(a[1], a[2], a[3])]

\* the direction handed to the renderer and whether it was interpolated
interpolatedDirection(direction, interpolationData, tn) ==
  IF direction # interpolationData.direction
    THEN [direction |-> blendedDirections[<<direction, interpolationData.direction, tn>>],
          update |-> TRUE]
    ELSE [direction |-> direction, update |-> FALSE]

\* a plausible slip: the sign test of line 97 left out
interpolatedScaleNoSignTest(scale, interpolationData, tn) ==
  LET startingScale == interpolationData.scale
      changeX == scale[1] - startingScale[1]
      changeY == scale[2] - startingScale[2]
  IN  IF /\ (scale[1] # startingScale[1] \/ scale[2] # startingScale[2])
         /\ Abs(changeX) < 100 /\ Abs(changeY) < 100
        THEN [scale |-> << Lerp(startingScale[1], changeX, tn),
                           Lerp(startingScale[2], changeY, tn) >>,
              update |-> TRUE]
        ELSE [scale |-> << Fixed(scale[1]), Fixed(scale[2]) >>, update |-> FALSE]

\* the scale handed to the renderer (the local array, written in place) and
\* whether it was interpolated
interpolatedScale(scale, interpolationData, tn) ==
  LET startingScale == interpolationData.scale
      changeX == scale[1] - startingScale[1]
      changeY == scale[2] - startingScale[2]
      absoluteChangeX == Abs(changeX)
      absoluteChangeY == Abs(changeY)
  IN  IF /\ (scale[1] # startingScale[1] \/ scale[2] # startingScale[2])
         /\ Sign(scale[1]) = Sign(startingScale[1])
         /\ Sign(scale[2]) = Sign(startingScale[2])
         /\ absoluteChangeX < 100 /\ absoluteChangeY < 100
        THEN [scale |-> << Lerp(startingScale[1], changeX, tn),
                           Lerp(startingScale[2], changeY, tn) >>,
              update |-> TRUE]
        ELSE [scale |-> << Fixed(scale[1]), Fixed(scale[2]) >>, update |-> FALSE]

\* the one combined call of line 112
directionScaleUpdate(target, interpolationData, tn) ==
  LET rendered == getRenderedDirectionAndScale(target)
      d == interpolatedDirection(rendered.direction, interpolationData, tn)
      s == interpolatedScale(rendered.scale, interpolationData, tn)
  IN  IF d.update \/ s.update
        THEN << [op |-> "updateDrawableDirectionScale",
                 drawableID |-> target.drawableID,
                 direction |-> d.direction,
                 scale |-> s.scale] >>
        ELSE << >>

\* a plausible slip: the costume test of lines 75-76 left out
directionScaleCallsAnyCostume(target, interpolationData, tn) ==
  directionScaleUpdate(target, interpolationData, tn)

\* the direction and scale blend
directionScaleCalls(target, interpolationData, tn) ==
  LET costumeDidChange == interpolationData.costume # target.currentCostume
  IN  IF ~costumeDidChange
        THEN directionScaleUpdate(target, interpolationData, tn)
        ELSE << >>

----------------------------------------------------------------------------
(* interpolate: the loop.  Its state is the targets, the renderer calls    *)
(* issued so far and whether an exception has ended the call.              *)

\* drawable.getAABB() of line 52 is reached with no drawable under the
\* target's drawableID: a TypeError
targetRaises(target, drawables) ==
  /\ moved(target, target.interpolationData)
  /\ drawables[target.drawableID] = Null

\* the renderer calls of one pass of the loop, in the order issued
targetCalls(target, drawables, tn) ==
  LET interpolationData == target.interpolationData
      drawable == drawables[target.drawableID]
  IN  (IF moved(target, interpolationData)
         THEN positionCalls(target, interpolationData, drawable, tn)
         ELSE << >>)
        \o ghostCalls(target, interpolationData, tn)
        \o directionScaleCalls(target, interpolationData, tn)

\* a plausible slip: the interpolated x is stored on the target as well
interpolateTargetMovesTarget(st, drawables, i, tn) ==
  LET target == st.targets[i]
      interpolationData == target.interpolationData
  IN  IF interpolationData = Null THEN st
      ELSE IF targetRaises(target, drawables) THEN [st EXCEPT !.raised = TRUE]
      ELSE [st EXCEPT !.calls = @ \o targetCalls(target, drawables, tn),
                      !.targets[i].x =
                        Lerp(interpolationData.x, target.x - interpolationData.x, tn)
                          \div TimeSteps]

\* a plausible slip: the interpolated scale is written to startingScale (the
\* snapshot's array) instead of the local scale array
interpolateTargetWritesSnapshot(st, drawables, i, tn) ==
  LET target == st.targets[i]
      interpolationData == target.interpolationData
      s == interpolatedScale(target.scale, interpolationData, tn)
  IN  IF interpolationData = Null THEN st
      ELSE IF targetRaises(target, drawables) THEN [st EXCEPT !.raised = TRUE]
      ELSE [st EXCEPT !.calls = @ \o targetCalls(target, drawables, tn),
                      !.targets[i].interpolationData.scale =
                        IF interpolationData.costume = target.currentCostume /\ s.update
                          THEN << s.scale[1] \div TimeSteps, s.scale[2] \div TimeSteps >>
                          ELSE @]

\* one pass of the loop of lines 34-115: nothing of the target is assigned
interpolateTarget(st, drawables, i, tn) ==
  LET target == st.targets[i]
      interpolationData == target.interpolationData
  IN  IF interpolationData = Null THEN st
      ELSE IF targetRaises(target, drawables) THEN [st EXCEPT !.raised = TRUE]
      ELSE [st EXCEPT !.calls = @ \o targetCalls(target, drawables, tn)]

RECURSIVE interpolateFrom(_, _, _, _)
\* the loop from target i on; an exception ends it
interpolateFrom(st, drawables, i, tn) ==
  IF i > Len(st.targets) \/ st.raised THEN st
  ELSE interpolateFrom(interpolateTarget(st, drawables, i, tn), drawables, i + 1, tn)

\* interpolate(runtime, time): the targets, calls and exception it ends with
interpolateResult(runtimeTargets, renderer, drawables, tn) ==
  LET st == [targets |-> runtimeTargets, calls |-> << >>, raised |-> FALSE]
  IN  IF ~renderer THEN st
      ELSE interpolateFrom(st, drawables, 1, tn)

----------------------------------------------------------------------------
(* State *)

\* a target as constructed
newTarget(id, stage) ==
  [x |-> 0, y |-> 0, direction |-> 90, scale |-> <<100, 100>>,
   currentCostume |-> 0, effects |-> [ghost |-> 0],
   visible |-> TRUE, isStage |-> stage, drawableID |-> id,
   interpolationData |-> Null]

Init ==
  /\ targets = << newTarget(1, TRUE), newTarget(2, FALSE), newTarget(3, FALSE) >>
  /\ rendererAttached = TRUE
  \* the first sprite was given a drawable when it was made, or it was not
  /\ \E d \in {Null, [width |-> 100 * PosScale, height |-> 100 * PosScale]} :
       allDrawables = [id \in TargetIds |->
                         IF id = 2 THEN d
                         ELSE [width |-> 100 * PosScale, height |-> 100 * PosScale]]
  /\ calls = << >>
  /\ raised = FALSE
  /\ lastOp = "init"
  /\ lastTime = 0
  /\ mutations = 0

\* setupInitialState(runtime)
setupInitialState ==
  /\ targets' = [i \in DOMAIN targets |-> setupTarget(targets[i])]
  /\ calls' = << >>
  /\ raised' = FALSE
  /\ lastOp' = "capture"
  /\ lastTime' = 0
  /\ UNCHANGED <<rendererAttached, allDrawables, mutations>>

\* interpolate(runtime, tn/TimeSteps)
interpolate ==
  \E tn \in Times :
    \E st \in {interpolateResult(targets, rendererAttached, allDrawables, tn)} :
      /\ targets' = st.targets
      /\ calls' = st.calls
      /\ raised' = st.raised
      /\ lastOp' = "interpolate"
      /\ lastTime' = tn
      /\ UNCHANGED <<rendererAttached, allDrawables, mutations>>

\* what every host mutation does besides its own assignment
hostStep ==
  /\ mutations < MaxMutations
  /\ mutations' = mutations + 1
  /\ calls' = << >>
  /\ raised' = FALSE
  /\ lastOp' = "mutate"
  /\ lastTime' = 0

\* the host moves a target
setXY ==
  \E i \in Sprites : \E xy \in PositionValuesOf(i) :
    /\ xy # <<targets[i].x, targets[i].y>>
    /\ targets' = [targets EXCEPT ![i].x = xy[1], ![i].y = xy[2]]
    /\ hostStep
    /\ UNCHANGED <<rendererAttached, allDrawables>>

\* the host sets a target's ghost effect
setGhost ==
  \E i \in Animated, g \in GhostValues :
    /\ g # targets[i].effects.ghost
    /\ targets' = [targets EXCEPT ![i].effects.ghost = g]
    /\ hostStep
    /\ UNCHANGED <<rendererAttached, allDrawables>>

\* the host switches a target's costume
setCostume ==
  \E i \in Animated, c \in CostumeValues :
    /\ c # targets[i].currentCostume
    /\ targets' = [targets EXCEPT ![i].currentCostume = c]
    /\ hostStep
    /\ UNCHANGED <<rendererAttached, allDrawables>>

\* the host shows or hides a target
setVisible ==
  \E i \in Sprites :
    /\ targets' = [targets EXCEPT ![i].visible = ~@]
    /\ hostStep
    /\ UNCHANGED <<rendererAttached, allDrawables>>

\* the host turns a target
setDirection ==
  \E i \in Animated, d \in DirectionValues :
    /\ d # targets[i].direction
    /\ targets' = [targets EXCEPT ![i].direction = d]
    /\ hostStep
    /\ UNCHANGED <<rendererAttached, allDrawables>>

\* the host resizes or mirrors a target
setScale ==
  \E i \in Animated, s \in ScaleValues :
    /\ s # targets[i].scale
    /\ targets' = [targets EXCEPT ![i].scale = s]
    /\ hostStep
    /\ UNCHANGED <<rendererAttached, allDrawables>>

\* the renderer drops a drawable, or its bounding box changes
setDrawable ==
  \E id \in Sprites, d \in BoundsValues \cup {Null} :
    /\ d # allDrawables[id]
    /\ allDrawables' = [allDrawables EXCEPT ![id] = d]
    /\ hostStep
    /\ UNCHANGED <<targets, rendererAttached>>

\* the host attaches or detaches the renderer
setRenderer ==
  /\ rendererAttached' = ~rendererAttached
  /\ hostStep
  /\ UNCHANGED <<targets, allDrawables>>

Next ==
  \/ setupInitialState
  \/ interpolate
  \/ setXY
  \/ setGhost
  \/ setCostume
  \/ setVisible
  \/ setDirection
  \/ setScale
  \/ setDrawable
  \/ setRenderer

Spec == Init /\ [][Next]_vars

----------------------------------------------------------------------------
(* Properties *)

\* the renderer calls of one kind that the last step issued for a drawable
callsOf(id, op) == SelectSeq(calls, LAMBDA c : c.drawableID = id /\ c.op = op)

\* a target's own state
logical(target) ==
  [x |-> target.x, y |-> target.y, effects |-> target.effects,
   currentCostume |-> target.currentCostume,
   visible |-> target.visible, isStage |-> target.isStage]

\* two directions are the same angle
sameAngle(a, b) == (a - b) % 360 = 0

\* C1: an interpolate call, whatever its time and whatever went before,
\* leaves every target's x, y, effects, currentCostume, visible and isStage
\* as they were, and leaves the renderer attached with the drawables it had:
\* what it does is issue renderer updates.
InterpolateKeepsTargets ==
  [][lastOp' = "interpolate" =>
       /\ \A i \in TargetIds : logical(targets'[i]) = logical(targets[i])
       /\ rendererAttached' = rendererAttached
       /\ allDrawables' = allDrawables]_vars

\* C1 witness: an interpolate call at a time > 0 has pushed to the renderer
\* a position that is not the target's own
InterpolatePushedBlend ==
  /\ lastOp = "interpolate"
  /\ lastTime > 0
  /\ \E i \in TargetIds :
       /\ Len(callsOf(i, "updateDrawablePosition")) = 1
       /\ callsOf(i, "updateDrawablePosition")[1].position
            # << Fixed(targets[i].x), Fixed(targets[i].y) >>
       /\ << targets[i].x, targets[i].y >> # << 0, 0 >>

\* C2: an interpolate call leaves every target's interpolationData, each
\* field and both elements of its scale, as the last capture stored it; and
\* an interpolate call that follows an interpolate call of the same time
\* issues the same renderer calls.
SnapshotsKept ==
  [][lastOp' = "interpolate" =>
       /\ \A i \in TargetIds :
            targets'[i].interpolationData = targets[i].interpolationData
       /\ (lastOp = "interpolate" /\ lastTime' = lastTime) =>
            (calls' = calls /\ raised' = raised)]_vars

\* C2 witness: an interpolate call has overwritten its scale array with an
\* interpolated scale and handed it to the renderer
ScaleInterpolatedInPlace ==
  /\ lastOp = "interpolate"
  /\ \E i \in TargetIds :
       /\ Len(callsOf(i, "updateDrawableDirectionScale")) = 1
       /\ targets[i].interpolationData # Null
       /\ LET pushed == callsOf(i, "updateDrawableDirectionScale")[1].scale
          IN  /\ pushed # << Fixed(targets[i].scale[1]), Fixed(targets[i].scale[2]) >>
              /\ pushed # << Fixed(targets[i].interpolationData.scale[1]),
                             Fixed(targets[i].interpolationData.scale[2]) >>

\* C3: when setupInitialState returns, a target that was invisible or is the
\* stage has no interpolationData, whatever it had before, and any other
\* target has exactly its x, y, rendered direction, rendered scale,
\* currentCostume and effects.ghost of the time of the call.
CaptureStoresRenderedState ==
  [][lastOp' = "capture" =>
       \A i \in TargetIds :
         targets'[i].interpolationData =
           IF ~targets[i].visible \/ targets[i].isStage
             THEN Null
             ELSE [x |-> targets[i].x,
                   y |-> targets[i].y,
                   direction |-> getRenderedDirectionAndScale(targets[i]).direction,
                   scale |-> getRenderedDirectionAndScale(targets[i]).scale,
                   costume |-> targets[i].currentCostume,
                   ghost |-> targets[i].effects.ghost]]_vars

\* C3 witness: a capture has left the stage and a hidden sprite without
\* data and stored the data of a sprite that had moved
CapturedMixedTargets ==
  /\ lastOp = "capture"
  /\ \E i \in TargetIds : targets[i].isStage /\ targets[i].interpolationData = Null
  /\ \E i \in TargetIds :
       ~targets[i].isStage /\ ~targets[i].visible /\ targets[i].interpolationData = Null
  /\ \E i \in TargetIds :
       /\ targets[i].interpolationData # Null
       /\ << targets[i].interpolationData.x, targets[i].interpolationData.y >> # << 0, 0 >>

\* the position rule of C4 for target i, on the calls of the last step
positionRule(i) ==
  LET target == targets[i]
      data == target.interpolationData
      bounds == allDrawables[target.drawableID]
      dx == target.x - data.x
      dy == target.y - data.y
      tolX == Min(50 * PosScale, 10 * PosScale + bounds.width)
      tolY == Min(50 * PosScale, 10 * PosScale + bounds.height)
  IN  callsOf(i, "updateDrawablePosition") =
        IF /\ (Abs(dx) * 10 > PosScale \/ Abs(dy) * 10 > PosScale)
           /\ Abs(dx) < tolX
           /\ Abs(dy) < tolY
          THEN << [op |-> "updateDrawablePosition",
                   drawableID |-> target.drawableID,
                   position |-> << data.x * TimeSteps + dx * lastTime,
                                   data.y * TimeSteps + dy * lastTime >>] >>
          ELSE << >>

\* C4: after an interpolate call with a renderer, for every target that has
\* interpolationData and a drawable with an AABB, the position update was
\* issued exactly when the target moved more than 0.1 on an axis and less
\* than the tolerance min(50, 10 + AABB size) on both, and then with
\* snapshot + displacement * time.
PositionUpdatedExactlyWhenInTolerance ==
  (lastOp = "interpolate" /\ rendererAttached) =>
    \A i \in TargetIds :
      (targets[i].interpolationData # Null /\ allDrawables[targets[i].drawableID] # Null)
        => positionRule(i)

\* C4, on the interpolate calls that return: the position rule holds of
\* every target that has interpolationData
PositionRuleOnReturn ==
  (lastOp = "interpolate" /\ rendererAttached /\ ~raised) =>
    \A i \in TargetIds : targets[i].interpolationData # Null => positionRule(i)

\* C5: after an interpolate call that returned, for every target that has
\* interpolationData, with ghostDelta the change of effects.ghost since the
\* capture: the ghost update was issued exactly when 0 < |ghostDelta| < 25,
\* and then with the value snapshot.ghost + ghostDelta * time.
GhostPushedFromSnapshot ==
  (lastOp = "interpolate" /\ rendererAttached /\ ~raised) =>
    \A i \in TargetIds :
      LET data == targets[i].interpolationData
          ghostDelta == targets[i].effects.ghost - data.ghost
      IN  data # Null =>
            callsOf(i, "updateDrawableEffect") =
              IF 0 < Abs(ghostDelta) /\ Abs(ghostDelta) < 25
                THEN << [op |-> "updateDrawableEffect",
                         drawableID |-> targets[i].drawableID,
                         effect |-> "ghost",
                         value |-> data.ghost * TimeSteps + ghostDelta * lastTime] >>
                ELSE << >>

\* the value call c carries is that of state v (a snapshot, or the current
\* state of the target as {x, y, direction, scale, ghost})
carries(c, v) ==
  IF c.op = "updateDrawablePosition"
    THEN c.position = << Fixed(v.x), Fixed(v.y) >>
  ELSE IF c.op = "updateDrawableEffect"
    THEN c.value = Fixed(v.ghost)
  ELSE /\ sameAngle(c.direction, v.direction)
       /\ c.scale = << Fixed(v.scale[1]), Fixed(v.scale[2]) >>

\* the current state of a target, with the fields of a snapshot
current(target) ==
  [x |-> target.x, y |-> target.y,
   direction |-> getRenderedDirectionAndScale(target).direction,
   scale |-> getRenderedDirectionAndScale(target).scale,
   ghost |-> target.effects.ghost]

\* C6: every renderer update of an interpolate call at time 0 carries the
\* snapshot's value of its property, and every renderer update of an
\* interpolate call at time 1 carries the target's current value of it.
BoundaryValues ==
  lastOp = "interpolate" =>
    \A k \in 1..Len(calls) :
      LET target == targets[calls[k].drawableID]
      IN  /\ lastTime = 0 => carries(calls[k], target.interpolationData)
          /\ lastTime = TimeSteps => carries(calls[k], current(target))

\* C7: no interpolate call raises, and one without a renderer updates
\* nothing.
InterpolateNeverRaises ==
  lastOp = "interpolate" =>
    /\ ~raised
    /\ ~rendererAttached => calls = << >>

\* C8: after an interpolate call, no direction/scale update was issued for a
\* target whose currentCostume differs from its snapshot's costume.
CostumeChangeSkipsDirectionScale ==
  lastOp = "interpolate" =>
    \A i \in TargetIds :
      (/\ targets[i].interpolationData # Null
       /\ targets[i].interpolationData.costume # targets[i].currentCostume)
        => callsOf(i, "updateDrawableDirectionScale") = << >>

\* C8 witness: an interpolate call has run to its end over a target whose
\* costume changed and whose direction or scale changed too
CostumeChangedWithTurn ==
  /\ lastOp = "interpolate"
  /\ rendererAttached
  /\ ~raised
  /\ \E i \in TargetIds :
       /\ targets[i].interpolationData # Null
       /\ targets[i].interpolationData.costume # targets[i].currentCostume
       /\ \/ targets[i].interpolationData.direction # targets[i].direction
          \/ targets[i].interpolationData.scale # targets[i].scale

\* C9: after an interpolate call, for a target with unchanged costume whose
\* scale changed sign on an axis since the capture: no direction/scale
\* update carries a scale other than the current one; none was issued if the
\* direction is unchanged; at most one was issued, and exactly one if the
\* direction changed and the call reached its end.
SignFlipNeverInterpolatesScale ==
  lastOp = "interpolate" =>
    \A i \in TargetIds :
      LET data == targets[i].interpolationData
          scale == getRenderedDirectionAndScale(targets[i]).scale
          direction == getRenderedDirectionAndScale(targets[i]).direction
          updates == callsOf(i, "updateDrawableDirectionScale")
      IN  (/\ data # Null
           /\ data.costume = targets[i].currentCostume
           /\ \/ Sign(scale[1]) # Sign(data.scale[1])
              \/ Sign(scale[2]) # Sign(data.scale[2]))
            => /\ Len(updates) <= 1
               /\ \A k \in 1..Len(updates) :
                    updates[k].scale = << Fixed(scale[1]), Fixed(scale[2]) >>
               /\ direction = data.direction => updates = << >>
               /\ (direction # data.direction /\ rendererAttached /\ ~raised)
                    => Len(updates) = 1

\* C9 witness: an interpolate call at a time > 0 has issued the update of a
\* target that was mirrored and turned since the capture, with the current
\* scale
MirroredAndTurned ==
  /\ lastOp = "interpolate"
  /\ lastTime > 0
  /\ \E i \in TargetIds :
       /\ targets[i].interpolationData # Null
       /\ targets[i].interpolationData.costume = targets[i].currentCostume
       /\ Sign(targets[i].scale[1]) # Sign(targets[i].interpolationData.scale[1])
       /\ targets[i].direction # targets[i].interpolationData.direction
       /\ Len(callsOf(i, "updateDrawableDirectionScale")) = 1
       /\ callsOf(i, "updateDrawableDirectionScale")[1].scale
            = << Fixed(targets[i].scale[1]), Fixed(targets[i].scale[2]) >>

\* C10: after an interpolate call at time 1/2 that returned, a target with
\* unchanged costume, snapshot direction 350 and current direction 10 has
\* had a direction/scale update with direction 0 (or the same angle).
CircularBlendMidpoint ==
  (lastOp = "interpolate" /\ 2 * lastTime = TimeSteps /\ rendererAttached /\ ~raised) =>
    \A i \in TargetIds :
      LET data == targets[i].interpolationData
          updates == callsOf(i, "updateDrawableDirectionScale")
      IN  (/\ data # Null
           /\ data.costume = targets[i].currentCostume
           /\ data.direction = 350
           /\ getRenderedDirectionAndScale(targets[i]).direction = 10)
            => /\ Len(updates) = 1
               /\ sameAngle(updates[1].direction, 0)

====
